---- MODULE Spec2Model ----
(***************************************************************************)
(* A model of package clog's logger core: the factory registry (Register), *)
(* the receivers list with activation and hot-swap (NewLogger,             *)
(* receiver.close) and the console adapter (Init, ExchangeChans, Start,    *)
(* Flush, Destroy, write).                                                 *)
(*                                                                         *)
(* Go channels are modelled by what the runtime does with them: a buffered *)
(* channel is a bounded FIFO, an unbuffered send completes only as a       *)
(* rendezvous with a receiver waiting in its select, a send on a closed    *)
(* channel and a close of a closed channel panic, and a panic ends the     *)
(* process (no action is enabled once `panicked` is set).                  *)
(*                                                                         *)
(* console.write hands the message to Logger.Print, which discards the     *)
(* error of the write to the terminal stream, so a failing stream changes  *)
(* nothing the program can see.  Spec starts with a working stream,        *)
(* SpecBrokenStdout with one on which every write fails.                   *)
(***************************************************************************)
EXTENDS Integers, Sequences, FiniteSets, TLC

(***************************************************************************)
(* Bounds of the model.                                                    *)
(***************************************************************************)
\* adapters constructed by successful NewLogger calls
MaxAdapters == 2
\* messages emitted by the producer
MaxMsgs == 2
\* errors adapters report on the shared error channel
MaxErrs == 7

(***************************************************************************)
(* Program constants.                                                      *)
(***************************************************************************)
\* errorChan = make(chan error, 5)
ErrorChanCap == 5
\* LEVEL values; the declarations are in the part of the package that holds
\* the emission API
TRACE == 0
INFO == 1
WARN == 2
ERROR == 3
FATAL == 4

CONSOLE == "console"
\* a second mode identifier; MODE is a string type and any value may be used
FILE == "file"
Modes == {CONSOLE, FILE}

NIL == "nil"
\* the calls of Register tried: <<mode, factory>>; both factories construct a
\* console adapter
RegisterCalls ==
    {<<FILE, "newConsole">>, <<CONSOLE, "newConsoleAlt">>,
     <<CONSOLE, "newConsole">>, <<FILE, NIL>>}

\* goroutines calling NewLogger; number 2 is "off" unless an initial state
\* turns it on
Activators == {1, 2}
AdapterIds == 1..MaxAdapters

\* configuration values handed to NewLogger: ConsoleConfig values and one
\* value of another type.  The buffer sizes tried are the ones make accepts;
\* ConsoleInit also says what a negative one does
CfgLevels == {INFO, FATAL + 1}
BufferSizes == {0, 1, 2}
NoCfg == [type |-> "none", Level |-> 0, BufferSize |-> 0]
Cfgs ==
    {[type |-> "ConsoleConfig", Level |-> l, BufferSize |-> b] :
        l \in CfgLevels, b \in BufferSizes}
    \cup {[type |-> "string", Level |-> 0, BufferSize |-> 0]}
MsgLevels == {INFO}

VARIABLES
    factories,   \* map[MODE]Factory: a function on the registered modes
    receivers,   \* []*receiver: sequence of [mode, Logger, msgChan, quitChan]
    errorChan,   \* the shared error channel's buffer
    nextId,      \* identity of the next adapter newConsole constructs
    level,       \* console.level, per adapter
    errChanOf,   \* console.errorChan, per adapter (NIL until ExchangeChans)
    msgCap,      \* capacity of console.msgChan, per adapter
    msgBuf,      \* buffer of console.msgChan, per adapter
    msgClosed,   \* console.msgChan is closed
    quitClosed,  \* console.quitChan is closed
    loop,        \* the goroutine running console.Start: none, select, done
    act,         \* per activator: the position and locals of its NewLogger
    prod,        \* the producer: position and locals of its fan-out
    nextMsg,     \* identity of the next message
    panicked,    \* "" or the message of the panic that ended the process
    stdoutBroken, \* the environment: writes to the terminal stream fail
    cfgOf,       \* history: the configuration Init accepted, per adapter
    sent,        \* history: messages accepted by msgChan, per adapter
    rendered,    \* history: calls of console.write, per adapter
    writeFailed, \* history: some call of console.write failed to print
    errLoop,     \* the goroutine of the package's init: select, done
    quit,        \* the package's quitChan: none, raising, taken
    reported,    \* history: errors the error loop has printed
    nextErr      \* identity of the next error

vars ==
    <<factories, receivers, errorChan, nextId, level, errChanOf, msgCap,
      msgBuf, msgClosed, quitClosed, loop, act, prod, nextMsg, panicked,
      stdoutBroken, cfgOf, sent, rendered, writeFailed, errLoop, quit,
      reported, nextErr>>

adapterVars ==
    <<nextId, level, errChanOf, msgCap, cfgOf>>
chanVars ==
    <<msgBuf, msgClosed, quitClosed, sent, rendered, writeFailed>>
errVars ==
    <<errLoop, quit, reported, nextErr>>
\* what no step of a logger changes: the stream's state and the error loop
envVars ==
    <<stdoutBroken, errVars>>
\* everything but the error channel and the error loop
loggerVars ==
    <<factories, receivers, adapterVars, chanVars, loop, act, prod, nextMsg,
      panicked, stdoutBroken>>

(***************************************************************************)
(* Helpers.                                                                *)
(***************************************************************************)
Running == panicked = ""

IdleAct ==
    [pc |-> "idle", mode |-> CONSOLE, logger |-> 0, i |-> 0, qc |-> 0,
     fl |-> 0, fq |-> 0, res |-> "none"]
OffAct == [IdleAct EXCEPT !.pc = "off"]
IdleProd ==
    [pc |-> "idle", msg |-> [id |-> 0, level |-> 0], i |-> 0, n |-> 0, ch |-> 0]

\* the messages of a sequence of write records
RECURSIVE Msgs(_)
Msgs(r) == IF r = <<>> THEN <<>> ELSE <<Head(r).msg>> \o Msgs(Tail(r))

IsPrefix(s, t) == Len(s) <= Len(t) /\ SubSeq(t, 1, Len(s)) = s

\* isValidLevel(level): TRACE <= level <= FATAL
isValidLevel(l) == l >= TRACE /\ l <= FATAL

\* the process is still initializing: no NewLogger call was made and no
\* message emitted.  Register writes the unsynchronized map NewLogger reads,
\* and is called from init functions only
Initializing ==
    /\ \A t \in Activators :
        act[t].pc \in {"idle", "off"} /\ act[t].res = "none"
    /\ nextMsg = 1

\* factories[mode] as Go reads a map: the zero value for an absent key
FactoryAt(m) == IF m \in DOMAIN factories THEN factories[m] ELSE NIL

(***************************************************************************)
(* Register(mode, f)                                                       *)
(***************************************************************************)
Register_Overwrite(mode, f) ==
    /\ Running
    /\ Initializing
    /\ IF f = NIL
       THEN /\ panicked' = "clog: register function is nil"
            /\ UNCHANGED factories
       ELSE /\ factories' =
                [m \in DOMAIN factories \cup {mode} |->
                    IF m = mode THEN f ELSE factories[m]]
            /\ UNCHANGED panicked
    /\ UNCHANGED <<envVars, receivers, errorChan, adapterVars, chanVars,
                   loop, act, prod, nextMsg>>

Register(mode, f) ==
    /\ Running
    /\ Initializing
    /\ IF f = NIL
       THEN /\ panicked' = "clog: register function is nil"
            /\ UNCHANGED factories
       ELSE IF FactoryAt(mode) # NIL
       THEN /\ panicked' = "clog: register duplicated mode '" \o mode \o "'"
            /\ UNCHANGED factories
       ELSE /\ factories' =
                [m \in DOMAIN factories \cup {mode} |->
                    IF m = mode THEN f ELSE factories[m]]
            /\ UNCHANGED panicked
    /\ UNCHANGED <<envVars, receivers, errorChan, adapterVars, chanVars,
                   loop, act, prod, nextMsg>>

(***************************************************************************)
(* The console adapter: Init and ExchangeChans                             *)
(***************************************************************************)
\* make(chan *Message, cfg.BufferSize): the capacity of the channel made
MakeChan_OneMore(size) == size + 1

MakeChan_AtLeastOne(size) == IF size = 0 THEN 1 ELSE size

MakeChan(size) == size

\* console.Init(v): the error returned ("" for nil), or the runtime panic of
\* make with a negative size, and the fields it sets
ConsoleInit(v) ==
    IF v.type # "ConsoleConfig"
    THEN [err |-> "ErrConfigObject", panic |-> "", level |-> 0, cap |-> 0]
    ELSE IF ~isValidLevel(v.Level)
    THEN [err |-> "ErrInvalidLevel", panic |-> "", level |-> 0, cap |-> 0]
    ELSE IF v.BufferSize < 0
    THEN [err |-> "", panic |-> "makechan: size out of range",
          level |-> v.Level, cap |-> 0]
    ELSE [err |-> "", panic |-> "", level |-> v.Level,
          cap |-> MakeChan(v.BufferSize)]

\* console.ExchangeChans(errorChan): the value kept in c.errorChan
ExchangeChans(ec) == ec

(***************************************************************************)
(* NewLogger(mode, cfg), one action per step of the call by activator t    *)
(***************************************************************************)
\* factory lookup, factory(), Init and ExchangeChans; everything up to here
\* touches only the new adapter
NewLogger_InitIgnored(t, mode, cfg) ==
    /\ Running
    /\ act[t].pc = "idle"
    /\ IF mode \notin DOMAIN factories
       THEN /\ act' = [act EXCEPT ![t].res = "unknown mode"]
            /\ UNCHANGED <<adapterVars, panicked>>
       ELSE /\ nextId <= MaxAdapters
            /\ level' = [level EXCEPT ![nextId] = ConsoleInit(cfg).level]
            /\ msgCap' = [msgCap EXCEPT ![nextId] = ConsoleInit(cfg).cap]
            /\ cfgOf' = [cfgOf EXCEPT ![nextId] = cfg]
            /\ errChanOf' =
                [errChanOf EXCEPT ![nextId] = ExchangeChans("errorChan")]
            /\ nextId' = nextId + 1
            /\ act' = [act EXCEPT ![t] =
                        [IdleAct EXCEPT !.pc = "range", !.mode = mode,
                                        !.logger = nextId,
                                        !.res = "pending"]]
            /\ UNCHANGED panicked
    /\ UNCHANGED <<envVars, factories, receivers, errorChan, chanVars,
                   loop, prod, nextMsg>>

NewLogger(t, mode, cfg) ==
    /\ Running
    /\ act[t].pc = "idle"
    /\ IF mode \notin DOMAIN factories
       THEN /\ act' = [act EXCEPT ![t].res = "unknown mode"]
            /\ UNCHANGED <<adapterVars, panicked>>
       ELSE IF ConsoleInit(cfg).err # ""
       THEN /\ act' = [act EXCEPT ![t].res =
                        "fail to initialize: " \o ConsoleInit(cfg).err]
            /\ UNCHANGED <<adapterVars, panicked>>
       ELSE IF ConsoleInit(cfg).panic # ""
       THEN /\ panicked' = ConsoleInit(cfg).panic
            /\ UNCHANGED <<adapterVars, act>>
       ELSE /\ nextId <= MaxAdapters
            /\ level' = [level EXCEPT ![nextId] = ConsoleInit(cfg).level]
            /\ msgCap' = [msgCap EXCEPT ![nextId] = ConsoleInit(cfg).cap]
            /\ cfgOf' = [cfgOf EXCEPT ![nextId] = cfg]
            /\ errChanOf' =
                [errChanOf EXCEPT ![nextId] = ExchangeChans("errorChan")]
            /\ nextId' = nextId + 1
            /\ act' = [act EXCEPT ![t] =
                        [IdleAct EXCEPT !.pc = "range", !.mode = mode,
                                        !.logger = nextId,
                                        !.res = "pending"]]
            /\ UNCHANGED panicked
    /\ UNCHANGED <<envVars, factories, receivers, errorChan, chanVars,
                   loop, prod, nextMsg>>

\* for i := range receivers { if receivers[i].mode == mode { ... break } }:
\* the index of the first receiver of the mode, 0 when hasFound stays false
FindReceiver_Never(mode) == 0

\* the search matching the first receiver whatever its mode
FindReceiver_First(mode) == IF receivers = <<>> THEN 0 ELSE 1

FindReceiver(mode) ==
    IF \E i \in 1..Len(receivers) : receivers[i].mode = mode
    THEN CHOOSE i \in 1..Len(receivers) :
            /\ receivers[i].mode = mode
            /\ \A j \in 1..(i - 1) : receivers[j].mode # mode
    ELSE 0

\* the search loop; a receiver's mode is never assigned after its creation
\* and receivers only grows, so the loop's result is that of one look at the
\* list.  On a match the call enters receivers[i].close() and evaluates
\* r.quitChan for the send
Range(t) ==
    /\ Running
    /\ act[t].pc = "range"
    /\ IF FindReceiver(act[t].mode) = 0
       THEN act' = [act EXCEPT ![t].pc = "append"]
       ELSE act' = [act EXCEPT
                        ![t].pc = "close",
                        ![t].i = FindReceiver(act[t].mode),
                        ![t].qc =
                            receivers[FindReceiver(act[t].mode)].quitChan]
    /\ UNCHANGED <<envVars, factories, receivers, errorChan, adapterVars,
                   chanVars, loop, prod, nextMsg, panicked>>

\* c.write(msg): the message is handed to Logger.Print, which discards the
\* error of a failed write to the stream; nothing is sent on c.errorChan
write(c, msg, by) ==
    /\ rendered' = [rendered EXCEPT ![c] = Append(@, [msg |-> msg, by |-> by])]
    /\ writeFailed' = (writeFailed \/ stdoutBroken)
    /\ UNCHANGED errorChan

\* the send completing without a receiver, as on a buffered quitChan
CloseSignal_NoWait(t) ==
    /\ Running
    /\ act[t].pc = "close"
    /\ act' = [act EXCEPT ![t].pc = "flush_len",
                          ![t].fl = receivers[act[t].i].Logger,
                                  ![t].fq =
                                    Len(msgBuf[receivers[act[t].i].Logger])]
    /\ UNCHANGED <<envVars, factories, receivers, errorChan, adapterVars,
                   chanVars, loop, prod, nextMsg, panicked>>

\* the select's quit case taking the signal without returning
CloseSignal_LoopGoesOn(t) ==
    /\ Running
    /\ act[t].pc = "close"
    /\ ~quitClosed[act[t].qc]
    /\ loop[act[t].qc] = "select"
    /\ act' = [act EXCEPT ![t].pc = "flush_len",
                          ![t].fl = receivers[act[t].i].Logger,
                                  ![t].fq =
                                    Len(msgBuf[receivers[act[t].i].Logger])]
    /\ UNCHANGED <<envVars, factories, receivers, errorChan, adapterVars,
                   chanVars, loop, prod, nextMsg, panicked>>

\* r.quitChan <- struct{}{} in receiver.close: quitChan is unbuffered, so the
\* send completes only together with the receive in the select of Start,
\* which then returns; the call goes on to r.Flush()
CloseSignal(t) ==
    /\ Running
    /\ act[t].pc = "close"
    /\ IF quitClosed[act[t].qc]
       THEN /\ panicked' = "send on closed channel"
            /\ UNCHANGED <<loop, act>>
       ELSE /\ loop[act[t].qc] = "select"
            /\ loop' = [loop EXCEPT ![act[t].qc] = "done"]
            /\ act' = [act EXCEPT ![t].pc = "flush_len",
                                  ![t].fl = receivers[act[t].i].Logger,
                                  ![t].fq =
                                    Len(msgBuf[receivers[act[t].i].Logger])]
            /\ UNCHANGED panicked
    /\ UNCHANGED <<envVars, factories, receivers, errorChan, adapterVars,
                   chanVars, prod, nextMsg>>

\* console.Flush: if len(c.msgChan) == 0 { return }
FlushLen(t) ==
    /\ Running
    /\ act[t].pc = "flush_len"
    /\ IF Len(msgBuf[act[t].fl]) = 0
       THEN act' = [act EXCEPT ![t].pc = "destroy"]
       ELSE act' = [act EXCEPT ![t].pc = "flush_recv"]
    /\ UNCHANGED <<envVars, factories, receivers, errorChan, adapterVars,
                   chanVars, loop, prod, nextMsg, panicked>>

\* console.Flush: c.write(<-c.msgChan); a receive from a closed and empty
\* channel yields nil, and write dereferences it
FlushRecv_Last(t) ==
    /\ Running
    /\ act[t].pc = "flush_recv"
    /\ msgBuf[act[t].fl] # <<>>
    /\ write(act[t].fl, msgBuf[act[t].fl][Len(msgBuf[act[t].fl])], "Flush")
    /\ msgBuf' = [msgBuf EXCEPT ![act[t].fl] = SubSeq(@, 1, Len(@) - 1)]
    /\ act' = [act EXCEPT ![t].pc = "flush_len"]
    /\ UNCHANGED <<envVars, factories, receivers, adapterVars, msgClosed,
                   quitClosed, sent, loop, prod, nextMsg, panicked>>

FlushRecv(t) ==
    /\ Running
    /\ act[t].pc = "flush_recv"
    /\ IF msgBuf[act[t].fl] # <<>>
       THEN /\ write(act[t].fl, Head(msgBuf[act[t].fl]), "Flush")
            /\ msgBuf' = [msgBuf EXCEPT ![act[t].fl] = Tail(@)]
            /\ act' = [act EXCEPT ![t].pc = "flush_len"]
            /\ UNCHANGED panicked
       ELSE /\ msgClosed[act[t].fl]
            /\ panicked' = "nil pointer dereference"
            /\ UNCHANGED <<rendered, writeFailed, errorChan, msgBuf, act>>
    /\ UNCHANGED <<envVars, factories, receivers, adapterVars, msgClosed,
                   quitClosed, sent, loop, prod, nextMsg>>

\* Destroy called on the adapter under construction instead of the old one
Destroy_NewOne(t) ==
    /\ Running
    /\ act[t].pc = "destroy"
    /\ ~msgClosed[act[t].logger]
    /\ msgClosed' = [msgClosed EXCEPT ![act[t].logger] = TRUE]
    /\ quitClosed' = [quitClosed EXCEPT ![act[t].logger] = TRUE]
    /\ act' = [act EXCEPT ![t].pc = "update", ![t].fq = 0]
    /\ UNCHANGED <<envVars, factories, receivers, errorChan, adapterVars,
                   msgBuf, sent, rendered, writeFailed, loop, prod, nextMsg,
                   panicked>>

\* r.Destroy() in receiver.close: close(c.msgChan); close(c.quitChan) of the
\* adapter the receiver holds; the buffer of a closed channel keeps what was
\* queued
Destroy(t) ==
    /\ Running
    /\ act[t].pc = "destroy"
    /\ LET c == receivers[act[t].i].Logger IN
        IF msgClosed[c]
        THEN /\ panicked' = "close of closed channel"
             /\ UNCHANGED <<msgClosed, quitClosed, act>>
        ELSE IF quitClosed[c]
        THEN /\ panicked' = "close of closed channel"
             /\ msgClosed' = [msgClosed EXCEPT ![c] = TRUE]
             /\ UNCHANGED <<quitClosed, act>>
        ELSE /\ msgClosed' = [msgClosed EXCEPT ![c] = TRUE]
             /\ quitClosed' = [quitClosed EXCEPT ![c] = TRUE]
             /\ act' = [act EXCEPT ![t].pc = "update", ![t].fq = 0]
             /\ UNCHANGED panicked
    /\ UNCHANGED <<envVars, factories, receivers, errorChan, adapterVars,
                   msgBuf, sent, rendered, writeFailed, loop, prod, nextMsg>>

\* receivers[i].Logger = logger; .msgChan = msgChan; .quitChan = quitChan
Update_Skipped(t) ==
    /\ Running
    /\ act[t].pc = "update"
    /\ act' = [act EXCEPT ![t].pc = "start"]
    /\ UNCHANGED <<envVars, factories, receivers, errorChan, adapterVars,
                   chanVars, loop, prod, nextMsg, panicked>>

Update(t) ==
    /\ Running
    /\ act[t].pc = "update"
    /\ receivers' = [receivers EXCEPT ![act[t].i] =
                        [mode |-> @.mode, Logger |-> act[t].logger,
                         msgChan |-> act[t].logger,
                         quitChan |-> act[t].logger]]
    /\ act' = [act EXCEPT ![t].pc = "start"]
    /\ UNCHANGED <<envVars, factories, errorChan, adapterVars, chanVars,
                   loop, prod, nextMsg, panicked>>

\* if !hasFound { receivers = append(receivers, &receiver{...}) }
AppendReceiver(t) ==
    /\ Running
    /\ act[t].pc = "append"
    /\ receivers' = Append(receivers,
                        [mode |-> act[t].mode, Logger |-> act[t].logger,
                         msgChan |-> act[t].logger,
                         quitChan |-> act[t].logger])
    /\ act' = [act EXCEPT ![t].pc = "start"]
    /\ UNCHANGED <<envVars, factories, errorChan, adapterVars, chanVars,
                   loop, prod, nextMsg, panicked>>

\* the call returning without starting the new adapter's loop
GoStart_NoLoop(t) ==
    /\ Running
    /\ act[t].pc = "start"
    /\ act' = [act EXCEPT ![t] = [IdleAct EXCEPT !.res = "nil"]]
    /\ UNCHANGED <<envVars, factories, receivers, errorChan, adapterVars,
                   chanVars, loop, prod, nextMsg, panicked>>

\* go logger.Start(); return nil
GoStart(t) ==
    /\ Running
    /\ act[t].pc = "start"
    /\ loop' = [loop EXCEPT ![act[t].logger] = "select"]
    /\ act' = [act EXCEPT ![t] = [IdleAct EXCEPT !.res = "nil"]]
    /\ UNCHANGED <<envVars, factories, receivers, errorChan, adapterVars,
                   chanVars, prod, nextMsg, panicked>>

(***************************************************************************)
(* console.Start: one pass of the select of adapter a's consume loop.  The *)
(* quit case with a sender is part of CloseSignal; here are the message    *)
(* case and the quit case of a closed quitChan.                            *)
(***************************************************************************)
Start(a) ==
    /\ Running
    /\ loop[a] = "select"
    /\ \E case \in {"msg", "quit"} :
        IF case = "msg"
        THEN IF msgBuf[a] # <<>>
             THEN /\ write(a, Head(msgBuf[a]), "Start")
                  /\ msgBuf' = [msgBuf EXCEPT ![a] = Tail(@)]
                  /\ UNCHANGED <<loop, panicked>>
             ELSE /\ msgClosed[a]
                  /\ panicked' = "nil pointer dereference"
                  /\ UNCHANGED <<loop, msgBuf, rendered, writeFailed, errorChan>>
        ELSE /\ quitClosed[a]
             /\ loop' = [loop EXCEPT ![a] = "done"]
             /\ UNCHANGED <<msgBuf, rendered, writeFailed, errorChan, panicked>>
    /\ UNCHANGED <<envVars, factories, receivers, adapterVars, msgClosed,
                   quitClosed, sent, act, prod, nextMsg>>

(***************************************************************************)
(* The producer: the emission API's fan-out of one message over the        *)
(* receivers list.                                                         *)
(***************************************************************************)
\* a message of level l is constructed and the range over receivers begins
Write(l) ==
    /\ Running
    /\ prod.pc = "idle"
    /\ nextMsg <= MaxMsgs
    /\ prod' = [pc |-> "fan", msg |-> [id |-> nextMsg, level |-> l],
                i |-> 1, n |-> Len(receivers), ch |-> 0]
    /\ nextMsg' = nextMsg + 1
    /\ UNCHANGED <<envVars, factories, receivers, errorChan, adapterVars,
                   chanVars, loop, act, panicked>>

\* one iteration: skip a receiver whose Level() is above the message's,
\* otherwise evaluate receivers[i].msgChan for the send
Fan ==
    /\ Running
    /\ prod.pc = "fan"
    /\ IF prod.i > prod.n
       THEN prod' = IdleProd
       ELSE IF level[receivers[prod.i].Logger] > prod.msg.level
       THEN prod' = [prod EXCEPT !.i = @ + 1]
       ELSE prod' = [prod EXCEPT !.pc = "send",
                                 !.ch = receivers[prod.i].msgChan]
    /\ UNCHANGED <<envVars, factories, receivers, errorChan, adapterVars,
                   chanVars, loop, act, nextMsg, panicked>>

\* receivers[i].msgChan <- msg: panics on a closed channel, enqueues while
\* the buffer has room, hands over to a consume loop waiting in its select
\* when the channel is unbuffered, and blocks otherwise
Send ==
    /\ Running
    /\ prod.pc = "send"
    /\ IF msgClosed[prod.ch]
       THEN /\ panicked' = "send on closed channel"
            /\ UNCHANGED <<msgBuf, sent, rendered, writeFailed, errorChan, prod>>
       ELSE IF Len(msgBuf[prod.ch]) < msgCap[prod.ch]
       THEN /\ msgBuf' = [msgBuf EXCEPT ![prod.ch] = Append(@, prod.msg)]
            /\ sent' = [sent EXCEPT ![prod.ch] = Append(@, prod.msg)]
            /\ prod' = [prod EXCEPT !.pc = "fan", !.i = @ + 1, !.ch = 0]
            /\ UNCHANGED <<rendered, writeFailed, errorChan, panicked>>
       ELSE /\ msgBuf[prod.ch] = <<>>
            /\ loop[prod.ch] = "select"
            /\ write(prod.ch, prod.msg, "Start")
            /\ sent' = [sent EXCEPT ![prod.ch] = Append(@, prod.msg)]
            /\ prod' = [prod EXCEPT !.pc = "fan", !.i = @ + 1, !.ch = 0]
            /\ UNCHANGED <<msgBuf, panicked>>
    /\ UNCHANGED <<envVars, factories, receivers, adapterVars, msgClosed,
                   quitClosed, loop, act, nextMsg>>

(***************************************************************************)
(* The error loop: the goroutine started by the package's init, and its    *)
(* environment: adapters that report render failures and the process-wide  *)
(* shutdown.                                                               *)
(***************************************************************************)
\* an adapter reports a render failure: a best-effort push that drops the
\* error when the buffer of errorChan is full
ReportError ==
    /\ Running
    /\ nextErr <= MaxErrs
    /\ nextErr' = nextErr + 1
    /\ IF Len(errorChan) < ErrorChanCap
       THEN errorChan' = Append(errorChan, nextErr)
       ELSE UNCHANGED errorChan
    /\ UNCHANGED <<loggerVars, errLoop, quit, reported>>

\* the process-wide shutdown raises the signal on quitChan
Shutdown ==
    /\ Running
    /\ quit = "none"
    /\ quit' = "raising"
    /\ UNCHANGED <<loggerVars, errorChan, errLoop, reported, nextErr>>

\* case err := <-errorChan: fmt.Println(...)
ErrorLoopRecv ==
    /\ Running
    /\ errLoop = "select"
    /\ errorChan # <<>>
    /\ reported' = Append(reported, Head(errorChan))
    /\ errorChan' = Tail(errorChan)
    /\ UNCHANGED <<loggerVars, errLoop, quit, nextErr>>

\* the quit case taking the signal and the loop going round again
ErrorLoopQuit_GoesOn ==
    /\ Running
    /\ errLoop = "select"
    /\ quit = "raising"
    /\ quit' = "taken"
    /\ UNCHANGED <<loggerVars, errorChan, errLoop, reported, nextErr>>

\* case <-quitChan: return
ErrorLoopQuit ==
    /\ Running
    /\ errLoop = "select"
    /\ quit = "raising"
    /\ quit' = "taken"
    /\ errLoop' = "done"
    /\ UNCHANGED <<loggerVars, errorChan, reported, nextErr>>

(***************************************************************************)
(* The state after the package's init functions: the console factory is    *)
(* registered, no receiver exists, the error channel is empty.             *)
(***************************************************************************)
InitState ==
    /\ factories = [m \in {CONSOLE} |-> "newConsole"]
    /\ receivers = <<>>
    /\ errorChan = <<>>
    /\ nextId = 1
    /\ level = [a \in AdapterIds |-> 0]
    /\ errChanOf = [a \in AdapterIds |-> NIL]
    /\ msgCap = [a \in AdapterIds |-> 0]
    /\ msgBuf = [a \in AdapterIds |-> <<>>]
    /\ msgClosed = [a \in AdapterIds |-> FALSE]
    /\ quitClosed = [a \in AdapterIds |-> FALSE]
    /\ loop = [a \in AdapterIds |-> "none"]
    /\ prod = IdleProd
    /\ nextMsg = 1
    /\ panicked = ""
    /\ cfgOf = [a \in AdapterIds |-> NoCfg]
    /\ sent = [a \in AdapterIds |-> <<>>]
    /\ rendered = [a \in AdapterIds |-> <<>>]
    /\ writeFailed = FALSE
    /\ errLoop = "select"
    /\ quit = "none"
    /\ reported = <<>>
    /\ nextErr = 1

\* NewLogger calls are issued one at a time, by activator 1
Sequential == [t \in Activators |-> IF t = 1 THEN IdleAct ELSE OffAct]

\* NewLogger is called from two goroutines
Concurrent == [t \in Activators |-> IdleAct]

\* the terminal stream works
Init == InitState /\ act = Sequential /\ stdoutBroken = FALSE

\* the terminal stream is broken: every write to it fails
InitBrokenStdout == InitState /\ act = Sequential /\ stdoutBroken = TRUE

\* two goroutines call NewLogger; their steps interleave statement by
\* statement, as nothing in NewLogger synchronises them
InitConcurrent == InitState /\ act = Concurrent /\ stdoutBroken = FALSE

Next ==
    \/ \E c \in RegisterCalls : Register(c[1], c[2])
    \/ \E t \in Activators, m \in Modes, cfg \in Cfgs : NewLogger(t, m, cfg)
    \/ \E t \in Activators : Range(t)
    \/ \E t \in Activators : CloseSignal(t)
    \/ \E t \in Activators : FlushLen(t)
    \/ \E t \in Activators : FlushRecv(t)
    \/ \E t \in Activators : Destroy(t)
    \/ \E t \in Activators : Update(t)
    \/ \E t \in Activators : AppendReceiver(t)
    \/ \E t \in Activators : GoStart(t)
    \/ \E a \in AdapterIds : Start(a)
    \/ \E l \in MsgLevels : Write(l)
    \/ Fan
    \/ Send

Spec == Init /\ [][Next]_vars

SpecBrokenStdout == InitBrokenStdout /\ [][Next]_vars

SpecConcurrent == InitConcurrent /\ [][Next]_vars

\* the error loop and its environment; no adapter under src/ sends on
\* errorChan, so the loggers take no part
NextErrorLoop ==
    \/ ReportError
    \/ Shutdown
    \/ ErrorLoopRecv
    \/ ErrorLoopQuit

\* the error loop is scheduled fairly, and a select whose case stays ready
\* takes it in the end
SpecErrorLoop ==
    /\ Init
    /\ [][NextErrorLoop]_vars
    /\ WF_vars(ErrorLoopRecv)
    /\ WF_vars(ErrorLoopQuit)

\* a step of a NewLogger call past its Init
ActivatorStep ==
    \E t \in Activators :
        \/ Range(t) \/ CloseSignal(t) \/ FlushLen(t) \/ FlushRecv(t)
        \/ Destroy(t) \/ Update(t) \/ AppendReceiver(t) \/ GoStart(t)

\* fair scheduling: a NewLogger call that can take a step is not left
\* waiting forever; its send on quitChan is a step it takes together with the
\* consume loop waiting in its select
SpecFair ==
    /\ Init
    /\ [][Next]_vars
    /\ WF_vars(ActivatorStep)

(***************************************************************************)
(* Properties.                                                             *)
(***************************************************************************)
\* an activator is inside Flush of adapter a
Flushing(a) ==
    \E t \in Activators :
        act[t].pc \in {"flush_len", "flush_recv"} /\ act[t].fl = a

\* adapter a was constructed from a console configuration of buffer size 0
ZeroSized(a) ==
    cfgOf[a].type = "ConsoleConfig" /\ cfgOf[a].BufferSize = 0

\* C1: the receivers list holds at most one receiver per mode; a step of
\* NewLogger either appends exactly one receiver, of a mode not yet present,
\* or replaces the adapter and channels of one receiver in place, leaving the
\* number of receivers and every receiver's mode as they were.
C1_Unique ==
    \A i, j \in 1..Len(receivers) :
        receivers[i].mode = receivers[j].mode => i = j

C1_Step ==
    /\ Len(receivers') \in {Len(receivers), Len(receivers) + 1}
    /\ \A i \in 1..Len(receivers) : receivers'[i].mode = receivers[i].mode
    /\ Len(receivers') = Len(receivers) + 1 =>
        /\ \A i \in 1..Len(receivers) : receivers'[i] = receivers[i]
        /\ \A i \in 1..Len(receivers) :
            receivers[i].mode # receivers'[Len(receivers')].mode
    /\ Len(receivers') = Len(receivers) =>
        Cardinality({i \in 1..Len(receivers) :
                        receivers'[i] # receivers[i]}) <= 1

C1_OnePerMode == []C1_Unique /\ [][C1_Step]_vars

\* a hot-swap has completed: the one receiver holds the second adapter
C1_Witness ==
    /\ Len(receivers) = 1
    /\ receivers[1].Logger = 2
    /\ act[1].pc = "idle"
    /\ act[1].res = "nil"

\* C2: when Destroy has closed an adapter's channels, its inbound channel is
\* empty and every message the channel accepted has been rendered.
C2_NoLoss ==
    \A a \in AdapterIds :
        msgClosed[a] => msgBuf[a] = <<>> /\ Msgs(rendered[a]) = sent[a]

\* C3: for every adapter, the messages rendered are a prefix of the messages
\* its inbound channel accepted, in the same order.
C3_FIFO ==
    \A a \in AdapterIds : IsPrefix(Msgs(rendered[a]), sent[a])

\* an adapter rendered one message in its consume loop and the next in Flush
C3_Witness ==
    \E a \in AdapterIds :
        /\ Len(rendered[a]) >= 2
        /\ rendered[a][1].by = "Start"
        /\ rendered[a][2].by = "Flush"
        /\ rendered[a][1].msg # rendered[a][2].msg

\* C4: an inbound channel never holds more than the configured BufferSize
\* messages, and every message it accepted is either rendered or still
\* queued, in order: no send completes by dropping a message.
C4_Backpressure ==
    \A a \in AdapterIds :
        /\ Len(msgBuf[a]) <= cfgOf[a].BufferSize
        /\ sent[a] = Msgs(rendered[a]) \o msgBuf[a]

\* the producer is blocked in a send on a full channel nothing drains
C4_Witness ==
    /\ prod.pc = "send"
    /\ msgCap[prod.ch] >= 1
    /\ Len(msgBuf[prod.ch]) = cfgOf[prod.ch].BufferSize
    /\ ~msgClosed[prod.ch]
    /\ loop[prod.ch] # "select"
    /\ ~Flushing(prod.ch)
    /\ ~ENABLED Send

\* C5: a NewLogger call that returns an error (unknown mode, Init failure)
\* changes nothing of the dispatcher state: the receivers, every adapter and
\* channel, every consume loop; and a call goes past Init only with a
\* registered mode and a configuration Init accepts.
C5_Step ==
    \A t \in Activators :
        /\ (act[t].pc = "idle" /\ act'[t].pc = "idle" /\ act'[t] # act[t]) =>
            /\ act'[t].res \notin {"none", "nil", "pending"}
            /\ UNCHANGED <<factories, receivers, errorChan, adapterVars,
                           chanVars, loop>>
        /\ (act[t].pc = "idle" /\ act'[t].pc # "idle") =>
            /\ act'[t].mode \in DOMAIN factories
            /\ ConsoleInit(cfgOf'[act'[t].logger]).err = ""
            /\ UNCHANGED <<receivers, chanVars, loop>>

C5_FailedActivation == [][C5_Step]_vars

\* an activation failed in Init while a receiver with a running loop exists
C5_Witness ==
    /\ act[1].pc = "idle"
    /\ act[1].res = "fail to initialize: ErrInvalidLevel"
    /\ Len(receivers) = 1
    /\ loop[receivers[1].Logger] = "select"
    /\ msgBuf[receivers[1].Logger] # <<>>

\* C6 as claimed: at every state, every receiver's adapter is an initialized
\* adapter that has not been torn down.
C6_AlwaysWorking ==
    \A i \in 1..Len(receivers) :
        /\ errChanOf[receivers[i].Logger] # NIL
        /\ ~msgClosed[receivers[i].Logger]
        /\ ~quitClosed[receivers[i].Logger]

\* C6, amended: teardown of the old adapter begins only when the replacement
\* is initialized and wired, and a receiver of the mode exists throughout;
\* the receiver holds the old adapter until the overwrite, and holds a
\* destroyed adapter exactly between the old adapter's Destroy and the
\* overwrite.
C6_ReplacementReady ==
    /\ \A t \in Activators :
        act[t].pc \in {"close", "flush_len", "flush_recv", "destroy", "update"}
        =>
        /\ ConsoleInit(cfgOf[act[t].logger]).err = ""
        /\ errChanOf[act[t].logger] = "errorChan"
        /\ ~msgClosed[act[t].logger]
        /\ ~quitClosed[act[t].logger]
        /\ act[t].i \in 1..Len(receivers)
        /\ receivers[act[t].i].mode = act[t].mode
        /\ receivers[act[t].i].Logger # act[t].logger
        /\ msgClosed[receivers[act[t].i].Logger] <=> act[t].pc = "update"
    /\ \A i \in 1..Len(receivers) :
        (msgClosed[receivers[i].Logger] \/ quitClosed[receivers[i].Logger])
        => \E t \in Activators : act[t].pc = "update" /\ act[t].i = i

\* the window: the old adapter is destroyed and still in its receiver
C6_Witness ==
    /\ act[1].pc = "update"
    /\ msgClosed[receivers[act[1].i].Logger]
    /\ quitClosed[receivers[act[1].i].Logger]

\* C7: the registry is write-once per mode: a step never removes or changes
\* an entry, adds at most one entry, never a nil factory, and a Register that
\* panics (nil factory, duplicate mode) leaves the registry as it was.
C7_Step ==
    /\ \A m \in DOMAIN factories :
        m \in DOMAIN factories' /\ factories'[m] = factories[m]
    /\ \A m \in DOMAIN factories' : factories'[m] # NIL
    /\ Cardinality(DOMAIN factories') <= Cardinality(DOMAIN factories) + 1
    /\ panicked' # panicked => factories' = factories
    /\ panicked' = "clog: register duplicated mode 'console'" =>
        CONSOLE \in DOMAIN factories
    /\ panicked' = "clog: register duplicated mode 'file'" =>
        FILE \in DOMAIN factories

C7_WriteOnce == [][C7_Step]_vars

\* Register panicked on a mode that had been registered by an earlier call
C7_Witness ==
    /\ panicked = "clog: register duplicated mode 'file'"
    /\ factories[FILE] = "newConsole"
    /\ factories[CONSOLE] = "newConsole"

\* C8, as a property a finite run refutes: a message an inbound channel
\* accepted and that is not yet rendered can still be rendered: the adapter's
\* consume loop is running or about to be started, or its Flush is under way.
C8_Rendered ==
    \A a \in AdapterIds :
        Msgs(rendered[a]) # sent[a] =>
            loop[a] \in {"none", "select"} \/ Flushing(a)

\* C9: a write that fails while the error channel has room puts one error on
\* the error channel.
C9_Step ==
    (~writeFailed /\ writeFailed' /\ Len(errorChan) < ErrorChanCap) =>
        Len(errorChan') = Len(errorChan) + 1

C9_ErrorReported == [][C9_Step]_vars

\* C10 as claimed: no send into the inbound channel of an adapter configured
\* with BufferSize 0 ever completes.
C10_AlwaysBlocks ==
    \A a \in AdapterIds : ZeroSized(a) => sent[a] = <<>>

\* C10, amended: BufferSize 0 is accepted and gives an unbuffered channel:
\* it never queues a message, and a send completes only as a hand-off to the
\* consume loop waiting in its select, which renders the message at once.
C10_Unbuffered ==
    \A a \in AdapterIds :
        ZeroSized(a) =>
            /\ msgBuf[a] = <<>>
            /\ Msgs(rendered[a]) = sent[a]
            /\ \A k \in 1..Len(rendered[a]) : rendered[a][k].by = "Start"

\* a send into an unbuffered inbound channel has completed, and another one
\* is blocked on it after its loop has gone
C10_Witness ==
    \E a \in AdapterIds :
        /\ ZeroSized(a)
        /\ Len(sent[a]) = 1
        /\ prod.pc = "send"
        /\ prod.ch = a
        /\ loop[a] = "done"
        /\ ~ENABLED Send

\* C11: a hot-swap retires the old adapter in strict order: while the call is
\* inside Flush the old loop has exited and nothing of the old adapter is
\* closed; Destroy begins only after Flush has returned on an empty-checked
\* queue; the receiver still holds the old adapter until Destroy has closed
\* both channels; and the replacement's loop is not started before the
\* receiver holds the replacement.
C11_Order ==
    /\ \A t \in Activators :
        LET a == act[t] IN
        /\ a.pc = "close" =>
                /\ receivers[a.i].Logger # a.logger
                /\ ~msgClosed[receivers[a.i].Logger]
                /\ loop[a.logger] = "none"
        /\ a.pc \in {"flush_len", "flush_recv", "destroy"} =>
                /\ receivers[a.i].Logger = a.fl
                /\ a.fl # a.logger
                /\ loop[a.fl] = "done"
                /\ ~msgClosed[a.fl] /\ ~quitClosed[a.fl]
                /\ loop[a.logger] = "none"
        /\ a.pc = "update" =>
                /\ receivers[a.i].Logger = a.fl
                /\ loop[a.fl] = "done"
                /\ msgClosed[a.fl] /\ quitClosed[a.fl]
                /\ loop[a.logger] = "none"
        /\ (a.pc = "start" /\ a.i # 0) =>
                /\ receivers[a.i].Logger = a.logger
                /\ loop[a.fl] = "done"
                /\ msgClosed[a.fl] /\ quitClosed[a.fl]
                /\ loop[a.logger] = "none"
    /\ \A c \in AdapterIds :
        loop[c] = "select" =>
            \E i \in 1..Len(receivers) : receivers[i].Logger = c

\* C11 witness: a hot-swap at its last step: the old adapter is destroyed,
\* the receiver holds the replacement, whose loop is about to be started
C11_Witness ==
    \E t \in Activators :
        /\ act[t].pc = "start"
        /\ act[t].i # 0
        /\ msgClosed[act[t].fl]
        /\ receivers[act[t].i].Logger = act[t].logger

\* a step in which a loop that has taken its shutdown signal stays exited,
\* and in which a message of its adapter is rendered only by Flush, from the
\* head of the queue
C12_Step ==
    \A a \in AdapterIds :
        loop[a] = "done" =>
            /\ loop'[a] = "done"
            /\ rendered'[a] # rendered[a] =>
                    /\ Flushing(a)
                    /\ msgBuf[a] # <<>>
                    /\ rendered'[a] = Append(rendered[a],
                                        [msg |-> Head(msgBuf[a]), by |-> "Flush"])
            /\ msgBuf'[a] # msgBuf[a] /\ Len(msgBuf'[a]) < Len(msgBuf[a]) =>
                    rendered'[a] # rendered[a]

\* C12: once the consume loop has received the shutdown signal it has exited
\* and reads nothing more from the inbound channel; what is still queued is
\* rendered by Flush only; Flush never runs while the loop still reads.
C12_DrainByFlush ==
    /\ [](\A a \in AdapterIds : Flushing(a) => loop[a] = "done")
    /\ [][C12_Step]_vars

\* C12 witness: the loop has exited and the message that was queued at that
\* time has been rendered by Flush, which found the queue empty afterwards
C12_Witness ==
    \E t \in Activators :
        /\ act[t].pc = "destroy"
        /\ loop[act[t].fl] = "done"
        /\ rendered[act[t].fl] # <<>>
        /\ rendered[act[t].fl][Len(rendered[act[t].fl])].by = "Flush"

\* a step in which no message is added to the inbound channel of an adapter
\* that is being drained
C13_Step == \A a \in AdapterIds : Flushing(a) => sent'[a] = sent[a]

\* C13: from the old adapter's shutdown signal until its Flush has returned,
\* no producer adds a message to its inbound channel.
C13_NoSendWhileDraining == [][C13_Step]_vars

\* C14: no operation is performed on a channel of a destroyed adapter: no
\* send on its closed inbound channel, no send on and no second close of its
\* closed shutdown channel.
C14_NoUseAfterDestroy ==
    /\ panicked # "send on closed channel"
    /\ panicked # "close of closed channel"
    /\ ~(prod.pc = "send" /\ msgClosed[prod.ch])
    /\ \A t \in Activators :
        act[t].pc = "close" => ~quitClosed[act[t].qc]

SameReceiver(i) ==
    /\ i <= Len(receivers')
    /\ receivers'[i] = receivers[i]
    /\ LET c == receivers[i].Logger IN
        /\ level'[c] = level[c]
        /\ errChanOf'[c] = errChanOf[c]
        /\ msgCap'[c] = msgCap[c]
        /\ msgBuf'[c] = msgBuf[c]
        /\ msgClosed'[c] = msgClosed[c]
        /\ quitClosed'[c] = quitClosed[c]
        /\ loop'[c] = loop[c]
        /\ sent'[c] = sent[c]
        /\ rendered'[c] = rendered[c]

\* a step of a NewLogger call: a failing call changes no receiver at all, a
\* step of a call for mode m changes no receiver of another mode
C20_Step ==
    \A t \in Activators :
        act'[t] # act[t] =>
            IF act[t].pc = "idle" /\ act'[t].pc = "idle"
            THEN \A i \in 1..Len(receivers) : SameReceiver(i)
            ELSE LET m == IF act[t].pc = "idle" THEN act'[t].mode
                                                ELSE act[t].mode
                 IN  \A i \in 1..Len(receivers) :
                        receivers[i].mode # m => SameReceiver(i)

FlushCount(a) ==
    Cardinality({k \in 1..Len(rendered[a]) : rendered[a][k].by = "Flush"})

\* C17: Flush renders at most the number of messages that were queued when
\* it was called (act[t].fq), whatever arrives later, and it never waits in
\* its receive for a message.
C17_FlushBounded ==
    \A t \in Activators :
        /\ act[t].pc \in {"flush_len", "flush_recv", "destroy"} =>
                FlushCount(act[t].fl) <= act[t].fq
        /\ act[t].pc = "flush_recv" => msgBuf[act[t].fl] # <<>>

\* activator t is between the search and the start of the new loop
InSection(t) ==
    act[t].pc \in {"range", "close", "flush_len", "flush_recv", "destroy",
                   "update", "append", "start"}

\* no two concurrent calls tear down the adapter of the same receiver
C15_OneTeardown ==
    \A t, u \in Activators :
        (/\ t # u
         /\ act[t].pc \in {"close", "flush_len", "flush_recv", "destroy",
                            "update"}
         /\ act[u].pc \in {"close", "flush_len", "flush_recv", "destroy",
                            "update"})
            => act[t].i # act[u].i

\* no two receivers of one mode, as two appends for the mode would leave
C15_OneAppend ==
    \A i, j \in 1..Len(receivers) :
        receivers[i].mode = receivers[j].mode => i = j

\* C15: concurrent NewLogger calls serialize: at most one call at a time is
\* in the search/teardown/replace-or-append section, so two calls for one
\* mode never both tear down the same old adapter nor both append.
C15_Serialized ==
    /\ Cardinality({t \in Activators : InSection(t)}) <= 1
    /\ C15_OneTeardown
    /\ C15_OneAppend

\* C19: with activations issued one at a time and fair scheduling a
\* NewLogger call that replaces an existing mode terminates: whenever the
\* call waits in the send on the old quitChan, the channel is open and the
\* old loop is in its select to receive it, and every call past its Init
\* comes to its end; the only other end of a call is the end of the process
\* in a panic.
C19_Terminates ==
    /\ [](\A t \in Activators :
            (act[t].pc = "close" /\ Running) =>
                /\ ~quitClosed[act[t].qc]
                /\ loop[act[t].qc] = "select")
    /\ \A t \in Activators :
        (act[t].pc = "close") ~> (act[t].pc = "idle" \/ ~Running)

\* C19 witness: a hot-swap has returned nil: the old loop took the signal
\* and the old adapter is destroyed
C19_Witness ==
    \E t \in Activators, a \in AdapterIds :
        /\ Running
        /\ act[t].pc = "idle"
        /\ act[t].res = "nil"
        /\ loop[a] = "done"
        /\ quitClosed[a]

\* the errors of a sequence, as a set
Errors(q) == {q[k] : k \in 1..Len(q)}

\* a step in which an error loop that has returned stays so and consumes
\* nothing
C18_Step ==
    errLoop = "done" =>
        /\ errLoop' = "done"
        /\ reported' = reported
        /\ IsPrefix(errorChan, errorChan')

\* C18: the error loop, while it runs, eventually prints every error placed
\* on errorChan, in the order of their arrival and each once; it returns
\* once the signal on quitChan is raised, and consumes nothing afterwards.
C18_ErrorLoop ==
    /\ \A e \in 1..MaxErrs :
        (e \in Errors(errorChan))
            ~> (e \in Errors(reported) \/ errLoop = "done")
    /\ (quit # "none") ~> (errLoop = "done")
    /\ [][C18_Step]_vars
    /\ [](\A j, k \in 1..Len(reported) : j < k => reported[j] < reported[k])

\* C18 witness: the loop has printed errors, then taken the shutdown signal
\* and returned, and an error placed on the channel afterwards stays there
C18_Witness ==
    /\ errLoop = "done"
    /\ reported # <<>>
    /\ errorChan # <<>>
    /\ \A e \in Errors(errorChan) : \A k \in 1..Len(reported) : reported[k] < e

=============================================================================
